---------------------------- MODULE Spec2Model ----------------------------
(***************************************************************************)
(* A model of abcd.py: the ABCD (ray-transfer) matrix constructors and the *)
(* Gaussian-beam helpers.                                                  *)
(*                                                                         *)
(* Each public function is a pure function of its arguments.  The state    *)
(* of the model is the last call made (function and arguments), what the   *)
(* call produced (a returned value, or the exception it raised), and for a *)
(* chain of propagation matrices composed with @ the distances of its      *)
(* factors.                                                                *)
(*                                                                         *)
(* Numbers are Python numbers (int, float, complex).  They are modelled as *)
(* exact rationals, [tag |-> "float", n |-> numerator, d |-> denominator]  *)
(* in lowest terms with d > 0; rounding is not modelled.  Python's true    *)
(* division by a zero int, float or complex raises ZeroDivisionError; the  *)
(* exception is the value tagged "ZeroDivisionError", and it propagates    *)
(* through every enclosing expression to the end of the call.              *)
(***************************************************************************)
EXTENDS Integers, Sequences, FiniteSets, TLC

\* Arguments of the calls range over the integers -MaxArg .. MaxArg.
MaxArg == 3
\* Real and imaginary part of q range over -MaxQ .. MaxQ.
MaxQ == 2
\* The entries of the matrix handed to get_new_q range over -MaxM .. MaxM.
MaxM == 1
\* The longest chain of propagation matrices composed with @.
MaxChain == 3

VARIABLES call, ret, chain, fed

vars == <<call, ret, chain, fed>>

-----------------------------------------------------------------------------
(* Python numbers *)

Abs(x) == IF x < 0 THEN -x ELSE x

RECURSIVE GCD(_, _)
GCD(a, b) == IF b = 0 THEN a ELSE GCD(b, a % b)

\* The rational n/d (d # 0) in lowest terms with a positive denominator.
Num(n, d) ==
    LET g == GCD(Abs(n), Abs(d))
        s == IF d < 0 THEN -1 ELSE 1
    IN  [tag |-> "float", n |-> (s * n) \div g, d |-> (s * d) \div g]

Lit(i) == [tag |-> "float", n |-> i, d |-> 1]

Zero == Lit(0)
One == Lit(1)

ZeroDivisionError == [tag |-> "ZeroDivisionError", n |-> 0, d |-> 1]

IsFloat(a) == a.tag = "float"

\* a + b
Add(a, b) ==
    IF ~IsFloat(a) THEN a
    ELSE IF ~IsFloat(b) THEN b
    ELSE Num(a.n * b.d + b.n * a.d, a.d * b.d)

\* a - b
Sub(a, b) ==
    IF ~IsFloat(a) THEN a
    ELSE IF ~IsFloat(b) THEN b
    ELSE Num(a.n * b.d - b.n * a.d, a.d * b.d)

\* a * b
Mul(a, b) ==
    IF ~IsFloat(a) THEN a
    ELSE IF ~IsFloat(b) THEN b
    ELSE Num(a.n * b.n, a.d * b.d)

\* A division that returns an IEEE infinity or NaN instead of raising.
DivIEEE(a, b) ==
    IF ~IsFloat(a) THEN a
    ELSE IF ~IsFloat(b) THEN b
    ELSE IF b.n = 0
         THEN [tag |-> IF a.n = 0 THEN "nan" ELSE "inf", n |-> a.n, d |-> 1]
         ELSE Num(a.n * b.d, a.d * b.n)

\* a / b: Python's true division, which raises when b is zero.
Div(a, b) ==
    IF ~IsFloat(a) THEN a
    ELSE IF ~IsFloat(b) THEN b
    ELSE IF b.n = 0 THEN ZeroDivisionError
    ELSE Num(a.n * b.d, a.d * b.n)

\* from math import pi: a positive constant, here the rational 355/113.
pi == Num(355, 113)

\* The largest r in lo..hi with r * r <= k.
RECURSIVE FloorRoot(_, _, _)
FloorRoot(k, lo, hi) ==
    IF lo = hi THEN lo
    ELSE LET mid == (lo + hi + 1) \div 2
         IN  IF mid <= k \div mid
             THEN FloorRoot(k, mid, hi)
             ELSE FloorRoot(k, lo, mid - 1)

Root(k) == FloorRoot(k, 0, k)

IsSquare(k) == Root(k) * Root(k) = k

\* bd.sqrt: the non-negative root, exact when the argument is the square of
\* a rational and kept as the surd of its argument otherwise; of a negative
\* number, NaN.
sqrt(x) ==
    IF ~IsFloat(x) THEN x
    ELSE IF x.n < 0 THEN [tag |-> "nan", n |-> 0, d |-> 1]
    ELSE IF IsSquare(x.n) /\ IsSquare(x.d) THEN Num(Root(x.n), Root(x.d))
    ELSE [tag |-> "surd", n |-> x.n, d |-> x.d]

-----------------------------------------------------------------------------
(* 2x2 matrices: <<row1, row2>>, each row a pair of numbers *)

\* bd.array(m): the 2x2 array holding the entries of the nested list m.
array(m) == <<<<m[1][1], m[1][2]>>, <<m[2][1], m[2][2]>>>>

\* bd.eye(2)
eye2 == <<<<One, Zero>>, <<Zero, One>>>>

\* a @ b with rows and columns exchanged in the result.
MatMulTransposed(a, b) ==
    <<<<Add(Mul(a[1][1], b[1][1]), Mul(a[1][2], b[2][1])),
        Add(Mul(a[2][1], b[1][1]), Mul(a[2][2], b[2][1]))>>,
      <<Add(Mul(a[1][1], b[1][2]), Mul(a[1][2], b[2][2])),
        Add(Mul(a[2][1], b[1][2]), Mul(a[2][2], b[2][2]))>>>>

\* a @ b
MatMul(a, b) ==
    <<<<Add(Mul(a[1][1], b[1][1]), Mul(a[1][2], b[2][1])),
        Add(Mul(a[1][1], b[1][2]), Mul(a[1][2], b[2][2]))>>,
      <<Add(Mul(a[2][1], b[1][1]), Mul(a[2][2], b[2][1])),
        Add(Mul(a[2][1], b[1][2]), Mul(a[2][2], b[2][2]))>>>>

Entries(m) == {m[1][1], m[1][2], m[2][1], m[2][2]}

-----------------------------------------------------------------------------
(* The outcome of a call: a returned value or a raised exception *)

NoValue == <<>>

Returned(v) == [exc |-> "none", val |-> v]

Raised(e) == [exc |-> e, val |-> NoValue]

\* The outcome of a function whose last expression evaluates to the matrix m.
ReturnMatrix(m) ==
    IF \E x \in Entries(m) : x.tag = "ZeroDivisionError"
    THEN Raised("ZeroDivisionError")
    ELSE Returned(m)

\* The outcome of a function whose last expression evaluates to the real x.
ReturnReal(x) ==
    IF x.tag = "ZeroDivisionError" THEN Raised("ZeroDivisionError")
    ELSE Returned(x)

-----------------------------------------------------------------------------
(* The ray-transfer matrix constructors *)

lens_thin(f) ==
    LET m == <<<<One, Zero>>, <<Div(Lit(-1), f), One>>>>
    IN  ReturnMatrix(array(m))

m_end(n1, n2, r2) ==
    array(<<<<One, Zero>>, <<Div(Sub(n2, n1), Mul(r2, n1)), Div(n2, n1)>>>>)

m_mid(t) == array(<<<<One, t>>, <<Zero, One>>>>)

\* The entry surface with the ratio of the indices inverted.
m_start_inverted(n1, n2, r1) ==
    array(<<<<One, Zero>>, <<Div(Sub(n1, n2), Mul(r1, n2)), Div(n2, n1)>>>>)

m_start(n1, n2, r1) ==
    array(<<<<One, Zero>>, <<Div(Sub(n1, n2), Mul(r1, n2)), Div(n1, n2)>>>>)

\* The three factors multiplied in the opposite order.
lens_thick_reversed(n1, n2, r1, r2, t) ==
    ReturnMatrix(MatMul(MatMul(m_start(n1, n2, r1), m_mid(t)), m_end(n1, n2, r2)))

lens_thick(n1, n2, r1, r2, t) ==
    LET m == MatMul(MatMul(m_end(n1, n2, r2), m_mid(t)), m_start(n1, n2, r1))
    IN  ReturnMatrix(m)

propagation(d) ==
    LET m == <<<<One, d>>, <<Zero, One>>>>
    IN  ReturnMatrix(array(m))

mirror == ReturnMatrix(eye2)

\* The flat interface with a product where the quotient belongs.
interface_product(n1, n2) ==
    LET m == <<<<One, Zero>>, <<Zero, Mul(n1, n2)>>>>
    IN  ReturnMatrix(array(m))

interface(n1, n2) ==
    LET m == <<<<One, Zero>>, <<Zero, Div(n1, n2)>>>>
    IN  ReturnMatrix(array(m))

\* The curved interface with the radius on the diagonal.
curved_interface_diagonal(Re) ==
    LET m == <<<<One, Zero>>, <<Div(Lit(-2), Re), Re>>>>
    IN  ReturnMatrix(array(m))

curved_interface(Re) ==
    LET m == <<<<One, Zero>>, <<Div(Lit(-2), Re), One>>>>
    IN  ReturnMatrix(array(m))

-----------------------------------------------------------------------------
(* Python complex numbers: [re |-> number, im |-> number] *)

Complex(x) == [re |-> x, im |-> Zero]

CAdd(a, b) == [re |-> Add(a.re, b.re), im |-> Add(a.im, b.im)]

CMul(a, b) ==
    [re |-> Sub(Mul(a.re, b.re), Mul(a.im, b.im)),
     im |-> Add(Mul(a.re, b.im), Mul(a.im, b.re))]

\* a / b: raises when b is 0 + 0j.
CDiv(a, b) ==
    LET den == Add(Mul(b.re, b.re), Mul(b.im, b.im))
    IN  [re |-> Div(Add(Mul(a.re, b.re), Mul(a.im, b.im)), den),
         im |-> Div(Sub(Mul(a.im, b.re), Mul(a.re, b.im)), den)]

\* The outcome of a function whose last expression evaluates to the complex z.
ReturnComplex(z) ==
    IF z.re.tag = "ZeroDivisionError" \/ z.im.tag = "ZeroDivisionError"
    THEN Raised("ZeroDivisionError")
    ELSE Returned(z)

-----------------------------------------------------------------------------
(* The Gaussian-beam transformer and the beam-geometry relations *)

\* The default of get_new_q's third parameter.
inverce_default == FALSE

\* get_new_q with the two branches exchanged.
get_new_q_swapped(q, m, inverce) ==
    LET A == Complex(m[1][1])
        B == Complex(m[1][2])
        C == Complex(m[2][1])
        D == Complex(m[2][2])
        qt == IF inverce
              THEN CDiv(CAdd(CMul(A, q), B), CAdd(CMul(C, q), D))
              ELSE CDiv(CAdd(C, CDiv(D, q)), CAdd(A, CDiv(B, q)))
    IN  ReturnComplex(qt)

\* get_new_q whose inverse branch keeps the numerator and the denominator of
\* the direct branch.
get_new_q_same_ratio(q, m, inverce) ==
    LET A == Complex(m[1][1])
        B == Complex(m[1][2])
        C == Complex(m[2][1])
        D == Complex(m[2][2])
        qt == IF ~inverce
              THEN CDiv(CAdd(CMul(A, q), B), CAdd(CMul(C, q), D))
              ELSE CDiv(CAdd(A, CDiv(B, q)), CAdd(C, CDiv(D, q)))
    IN  ReturnComplex(qt)

get_new_q(q, m, inverce) ==
    LET A == Complex(m[1][1])
        B == Complex(m[1][2])
        C == Complex(m[2][1])
        D == Complex(m[2][2])
        qt == IF ~inverce
              THEN CDiv(CAdd(CMul(A, q), B), CAdd(CMul(C, q), D))
              ELSE CDiv(CAdd(C, CDiv(D, q)), CAdd(A, CDiv(B, q)))
    IN  ReturnComplex(qt)

\* The default of the parameter n of both beam-geometry functions.
n_default == One

get_gaussian_beams_W0(wavelength, z0, n) ==
    ReturnReal(sqrt(Div(Mul(Div(wavelength, n), z0), pi)))

\* The Rayleigh range with pi in the denominator.
get_gaussian_beams_Z0_pi_below(wavelength, w0, n) ==
    ReturnReal(Div(Mul(w0, w0), Mul(pi, Div(wavelength, n))))

\* The Rayleigh range with the wavelength multiplied by n.
get_gaussian_beams_Z0_times_n(wavelength, w0, n) ==
    ReturnReal(Div(Mul(Mul(w0, w0), pi), Mul(wavelength, n)))

get_gaussian_beams_Z0(wavelength, w0, n) ==
    ReturnReal(Div(Mul(Mul(w0, w0), pi), Div(wavelength, n)))

-----------------------------------------------------------------------------
(* The calls *)

\* The real arguments a caller passes.
Args == {Lit(i) : i \in -MaxArg..MaxArg}

\* The beam parameters a caller passes.
QArgs == {[re |-> Lit(x), im |-> Lit(y)] : x, y \in -MaxQ..MaxQ}

\* The real 2x2 matrices a caller passes to get_new_q.
MArgs ==
    {<<<<Lit(a), Lit(b)>>, <<Lit(c), Lit(d)>>>> : a, b, c, d \in -MaxM..MaxM}

\* How a caller passes the optional third argument of get_new_q.
Flags == {"omitted", "False", "True"}

NoCall == [fn |-> "none"]

\* The call has been made and has neither returned nor raised yet.
Pending == [exc |-> "pending", val |-> NoValue]

\* The optional arguments at their defaults where the caller omits them.
InverceOf(flag) == IF flag = "omitted" THEN inverce_default ELSE flag = "True"

NOf(n, n_given) == IF n_given THEN n ELSE n_default

\* A caller makes any one call of a public function, with any arguments.
Init ==
    /\ \/ \E f \in Args : call = [fn |-> "lens_thin", f |-> f]
       \/ \E n1, n2, r1, r2, t \in Args :
              call = [fn |-> "lens_thick", n1 |-> n1, n2 |-> n2,
                      r1 |-> r1, r2 |-> r2, t |-> t]
       \/ \E d \in Args : call = [fn |-> "propagation", d |-> d]
       \/ call = [fn |-> "mirror"]
       \/ \E n1, n2 \in Args : call = [fn |-> "interface", n1 |-> n1, n2 |-> n2]
       \/ \E Re \in Args : call = [fn |-> "curved_interface", Re |-> Re]
       \/ \E q \in QArgs, m \in MArgs, flag \in Flags :
              call = [fn |-> "get_new_q", q |-> q, m |-> m, flag |-> flag]
       \/ \E wavelength, w0, n \in Args, n_given \in BOOLEAN :
              call = [fn |-> "get_gaussian_beams_Z0", wavelength |-> wavelength,
                      w0 |-> w0, n |-> NOf(n, n_given)]
       \/ \E wavelength, z0, n \in Args, n_given \in BOOLEAN :
              call = [fn |-> "get_gaussian_beams_W0", wavelength |-> wavelength,
                      z0 |-> z0, n |-> NOf(n, n_given)]
    /\ ret = Pending
    /\ chain = <<>>
    /\ fed = NoCall

Call_lens_thin ==
    /\ call.fn = "lens_thin"
    /\ ret = Pending
    /\ ret' = lens_thin(call.f)
    /\ UNCHANGED <<call, chain, fed>>

Call_lens_thick ==
    /\ call.fn = "lens_thick"
    /\ ret = Pending
    /\ ret' = lens_thick(call.n1, call.n2, call.r1, call.r2, call.t)
    /\ UNCHANGED <<call, chain, fed>>

\* propagation(d); the matrix returned starts a chain of one factor.
Call_propagation ==
    /\ call.fn = "propagation"
    /\ ret = Pending
    /\ ret' = propagation(call.d)
    /\ chain' = <<call.d>>
    /\ UNCHANGED <<call, fed>>

\* propagation(d) @ p, for p the product of the chain so far.
Compose_left ==
    \E d \in Args :
        /\ call.fn \in {"propagation", "matmul"}
        /\ ret.exc = "none"
        /\ Len(chain) < MaxChain
        /\ call' = [fn |-> "matmul", side |-> "left", d |-> d]
        /\ ret' = ReturnMatrix(MatMul(propagation(d).val, ret.val))
        /\ chain' = <<d>> \o chain
        /\ UNCHANGED fed

\* p @ propagation(d), for p the product of the chain so far.
Compose_right ==
    \E d \in Args :
        /\ call.fn \in {"propagation", "matmul"}
        /\ ret.exc = "none"
        /\ Len(chain) < MaxChain
        /\ call' = [fn |-> "matmul", side |-> "right", d |-> d]
        /\ ret' = ReturnMatrix(MatMul(ret.val, propagation(d).val))
        /\ chain' = chain \o <<d>>
        /\ UNCHANGED fed

Call_mirror ==
    /\ call.fn = "mirror"
    /\ ret = Pending
    /\ ret' = mirror
    /\ UNCHANGED <<call, chain, fed>>

Call_interface ==
    /\ call.fn = "interface"
    /\ ret = Pending
    /\ ret' = interface(call.n1, call.n2)
    /\ UNCHANGED <<call, chain, fed>>

Call_curved_interface ==
    /\ call.fn = "curved_interface"
    /\ ret = Pending
    /\ ret' = curved_interface(call.Re)
    /\ UNCHANGED <<call, chain, fed>>

Call_get_new_q ==
    /\ call.fn = "get_new_q"
    /\ ret = Pending
    /\ ret' = get_new_q(call.q, call.m, InverceOf(call.flag))
    /\ UNCHANGED <<call, chain, fed>>

Call_get_gaussian_beams_Z0 ==
    /\ call.fn = "get_gaussian_beams_Z0"
    /\ ret = Pending
    /\ ret' = get_gaussian_beams_Z0(call.wavelength, call.w0, call.n)
    /\ UNCHANGED <<call, chain, fed>>

Call_get_gaussian_beams_W0 ==
    /\ call.fn = "get_gaussian_beams_W0"
    /\ ret = Pending
    /\ ret' = get_gaussian_beams_W0(call.wavelength, call.z0, call.n)
    /\ UNCHANGED <<call, chain, fed>>

\* get_gaussian_beams_W0 called with the Rayleigh range that the last call,
\* of get_gaussian_beams_Z0, returned; fed remembers that call.
Call_get_gaussian_beams_W0_of_Z0 ==
    \E wavelength, n \in Args, n_given \in BOOLEAN :
        /\ call.fn = "get_gaussian_beams_Z0"
        /\ ret.exc = "none"
        /\ call' = [fn |-> "get_gaussian_beams_W0", wavelength |-> wavelength,
                    z0 |-> ret.val, n |-> NOf(n, n_given)]
        /\ ret' = get_gaussian_beams_W0(wavelength, ret.val, NOf(n, n_given))
        /\ chain' = <<>>
        /\ fed' = call

Next ==
    \/ Call_lens_thin
    \/ Call_lens_thick
    \/ Call_propagation
    \/ Compose_left
    \/ Compose_right
    \/ Call_mirror
    \/ Call_interface
    \/ Call_curved_interface
    \/ Call_get_new_q
    \/ Call_get_gaussian_beams_Z0
    \/ Call_get_gaussian_beams_W0
    \/ Call_get_gaussian_beams_W0_of_Z0

Spec == Init /\ [][Next]_vars

-----------------------------------------------------------------------------
(* Properties *)

Nonzero(x) == x.n # 0

Positive(x) == x.n > 0

Det(m) == Sub(Mul(m[1][1], m[2][2]), Mul(m[1][2], m[2][1]))

\* The ray <<y', theta'>> that the matrix m makes of the ray v = <<y, theta>>.
Apply(m, v) ==
    <<Add(Mul(m[1][1], v[1]), Mul(m[1][2], v[2])),
      Add(Mul(m[2][1], v[1]), Mul(m[2][2], v[2]))>>

\* The rays that tell two 2x2 matrices apart.
Rays == {<<Lit(y), Lit(th)>> : y, th \in 0..1}

Identity == <<<<Lit(1), Lit(0)>>, <<Lit(0), Lit(1)>>>>

ThickLensCase ==
    /\ call.fn = "lens_thick"
    /\ ret # Pending
    /\ Nonzero(call.n1) /\ Nonzero(call.n2)
    /\ Nonzero(call.r1) /\ Nonzero(call.r2)

\* The three matrices as C1 states them.
C1_M_exit ==
    <<<<Lit(1), Lit(0)>>,
      <<Div(Sub(call.n2, call.n1), Mul(call.r2, call.n1)), Div(call.n2, call.n1)>>>>

C1_M_slab == <<<<Lit(1), call.t>>, <<Lit(0), Lit(1)>>>>

C1_M_entry ==
    <<<<Lit(1), Lit(0)>>,
      <<Div(Sub(call.n1, call.n2), Mul(call.r1, call.n2)), Div(call.n1, call.n2)>>>>

\* C1: for nonzero n1, n2, r1, r2 and any t, lens_thick(n1, n2, r1, r2, t)
\* returns the product M_exit @ M_slab(t) @ M_entry in that order: applied
\* to a ray, the matrix returned does what the entry surface, then the slab,
\* then the exit surface do to it.
C1_ThickLensIsExitSlabEntry ==
    ThickLensCase =>
        /\ ret.exc = "none"
        /\ \A v \in Rays :
               Apply(ret.val, v) =
                   Apply(C1_M_exit, Apply(C1_M_slab, Apply(C1_M_entry, v)))

\* A thick lens for which the order of the factors matters has been built.
C1_Witness ==
    /\ ThickLensCase
    /\ call.n1 = Lit(1) /\ call.n2 = Lit(2)
    /\ call.r1 = Lit(2) /\ call.r2 = Lit(-2) /\ call.t = Lit(1)
    /\ ret.exc = "none"
    /\ \E v \in Rays :
           Apply(ret.val, v) #
               Apply(C1_M_entry, Apply(C1_M_slab, Apply(C1_M_exit, v)))

\* C2 as stated: for nonzero n1, n2, r1, r2 and any t, the matrix returned
\* by lens_thick has determinant n1/n2.
C2_DetIsIndexRatio ==
    ThickLensCase => ret.exc = "none" /\ Det(ret.val) = Div(call.n1, call.n2)

\* C2 as amended: for nonzero n1, n2, r1, r2 and any t, the matrix returned
\* by lens_thick has determinant 1, the product of the determinants of its
\* three factors, n2/n1 (exit surface), 1 (slab) and n1/n2 (entry surface).
C2_DetIsOne ==
    ThickLensCase =>
        /\ ret.exc = "none"
        /\ Det(ret.val) = Lit(1)
        /\ Det(m_end(call.n1, call.n2, call.r2)) = Div(call.n2, call.n1)
        /\ Det(m_mid(call.t)) = Lit(1)
        /\ Det(m_start(call.n1, call.n2, call.r1)) = Div(call.n1, call.n2)
        /\ Det(ret.val) =
               Mul(Mul(Det(m_end(call.n1, call.n2, call.r2)), Det(m_mid(call.t))),
                   Det(m_start(call.n1, call.n2, call.r1)))

\* A thick lens between different indices has been built, and its
\* determinant is 1 while n1/n2 is 1/2.
C2_Witness ==
    /\ ThickLensCase
    /\ call.n1 = Lit(1) /\ call.n2 = Lit(2)
    /\ call.t = Lit(2)
    /\ ret.exc = "none"
    /\ Det(ret.val) = Lit(1)
    /\ Div(call.n1, call.n2) = Num(1, 2)

\* C3: mirror(), propagation(d) for any d, lens_thin(f) for f # 0 and
\* curved_interface(Re) for Re # 0 return a matrix of determinant 1, and
\* interface(n1, n2) for n2 # 0 returns a matrix of determinant n1/n2.
C3_ElementDeterminants ==
    /\ (call.fn \in {"mirror", "propagation"} /\ ret # Pending) =>
           ret.exc = "none" /\ Det(ret.val) = Lit(1)
    /\ (call.fn = "lens_thin" /\ ret # Pending /\ Nonzero(call.f)) =>
           ret.exc = "none" /\ Det(ret.val) = Lit(1)
    /\ (call.fn = "curved_interface" /\ ret # Pending /\ Nonzero(call.Re)) =>
           ret.exc = "none" /\ Det(ret.val) = Lit(1)
    /\ (call.fn = "interface" /\ ret # Pending /\ Nonzero(call.n2)) =>
           ret.exc = "none" /\ Det(ret.val) = Div(call.n1, call.n2)

\* A flat interface of determinant 2 has been built.
C3_Witness ==
    /\ call.fn = "interface"
    /\ call.n1 = Lit(2) /\ call.n2 = Lit(1)
    /\ ret.exc = "none"
    /\ Det(ret.val) = Lit(2)

RECURSIVE SeqSum(_)
SeqSum(s) == IF s = <<>> THEN Lit(0) ELSE Add(Head(s), SeqSum(Tail(s)))

\* C4: propagation(0) is the identity, propagation(d1) @ propagation(d2) is
\* propagation(d1 + d2), and a chain of propagation matrices, multiplied in
\* any order, is the propagation matrix of the sum of the distances.
C4_PropagationAdditive ==
    (call.fn \in {"propagation", "matmul"} /\ ret # Pending) =>
        /\ ret.exc = "none"
        /\ ret.val = <<<<Lit(1), SeqSum(chain)>>, <<Lit(0), Lit(1)>>>>
        /\ (chain = <<Lit(0)>> => ret.val = Identity)
        /\ (Len(chain) = 2 => ret.val[1][2] = Add(chain[1], chain[2]))

\* Three propagation matrices, of a positive, a negative and a zero
\* distance, have been multiplied.
C4_Witness ==
    /\ call.fn = "matmul"
    /\ chain = <<Lit(2), Lit(-1), Lit(0)>>
    /\ ret.exc = "none"
    /\ ret.val[1][2] = Lit(1)

CZero == [re |-> Lit(0), im |-> Lit(0)]

COne == [re |-> Lit(1), im |-> Lit(0)]

\* The entries of the matrix of the call of get_new_q, as complex numbers.
QA == Complex(call.m[1][1])
QB == Complex(call.m[1][2])
QC == Complex(call.m[2][1])
QD == Complex(call.m[2][2])

\* (A*q + B)/(C*q + D) and (C + D/q)/(A + B/q) for the call of get_new_q.
C5_Direct == CDiv(CAdd(CMul(QA, call.q), QB), CAdd(CMul(QC, call.q), QD))

C5_Inverse == CDiv(CAdd(QC, CDiv(QD, call.q)), CAdd(QA, CDiv(QB, call.q)))

\* C5: get_new_q(q, m, inverse) with m = [[A,B],[C,D]] returns
\* (A*q + B)/(C*q + D) when the flag is false or omitted, and
\* (C + D/q)/(A + B/q) when the flag is true; the flag alone selects the
\* branch.
C5_NewQBranches ==
    (call.fn = "get_new_q" /\ ret # Pending) =>
        /\ call.flag \in {"omitted", "False"} =>
               /\ ret = ReturnComplex(C5_Direct)
               /\ ret.exc = "none" =>
                      CMul(ret.val, CAdd(CMul(QC, call.q), QD)) =
                          CAdd(CMul(QA, call.q), QB)
        /\ call.flag = "True" =>
               /\ ret = ReturnComplex(C5_Inverse)
               /\ ret.exc = "none" =>
                      CMul(ret.val, CAdd(QA, CDiv(QB, call.q))) =
                          CAdd(QC, CDiv(QD, call.q))

\* get_new_q, called without the flag on q = 1+1j and m = [[1,1],[-1,0]],
\* has returned (q + 1)/(-q) = -3/2 + 1/2 j, and not the value of the
\* other branch.
C5_Witness ==
    /\ call.fn = "get_new_q"
    /\ call.flag = "omitted"
    /\ call.q = [re |-> Lit(1), im |-> Lit(1)]
    /\ call.m = <<<<Lit(1), Lit(1)>>, <<Lit(-1), Lit(0)>>>>
    /\ ret.exc = "none"
    /\ ret.val = [re |-> Num(-3, 2), im |-> Num(1, 2)]
    /\ ret.val # C5_Inverse

\* q is nonzero and so is every denominator of either branch for (q, m).
C6_Denominators(q, m) ==
    LET A == Complex(m[1][1])
        B == Complex(m[1][2])
        C == Complex(m[2][1])
        D == Complex(m[2][2])
    IN  /\ q # CZero
        /\ CAdd(CMul(C, q), D) # CZero
        /\ CAdd(CMul(A, q), B) # CZero
        /\ CAdd(A, CDiv(B, q)) # CZero

\* C6 as stated: there are a nonzero q and a real matrix m, every
\* denominator involved nonzero, for which 1/get_new_q(q, m, inverse=False)
\* differs from get_new_q(q, m, inverse=True) in exact arithmetic.  The pair
\* is looked for, once a call of get_new_q has returned, among all the
\* arguments a caller passes.
C6_BranchesDiffer ==
    (call.fn = "get_new_q" /\ ret.exc = "none") =>
        \E q \in QArgs, m \in MArgs :
            /\ C6_Denominators(q, m)
            /\ CDiv(COne, get_new_q(q, m, FALSE).val) # get_new_q(q, m, TRUE).val

\* C6 as amended: for every nonzero q and real matrix m with every
\* denominator involved nonzero, get_new_q(q, m, inverse=True) returns
\* exactly 1/get_new_q(q, m, inverse=False).
C6_BranchesReciprocal ==
    (/\ call.fn = "get_new_q"
     /\ ret # Pending
     /\ call.flag = "True"
     /\ C6_Denominators(call.q, call.m)) =>
        /\ ret.exc = "none"
        /\ get_new_q(call.q, call.m, FALSE).exc = "none"
        /\ ret.val = CDiv(COne, get_new_q(call.q, call.m, FALSE).val)

\* The inverse branch has returned for q = 1+1j and m = [[1,1],[-1,0]],
\* where the direct branch gives -3/2 + 1/2 j: it returned -3/5 - 1/5 j.
C6_Witness ==
    /\ call.fn = "get_new_q"
    /\ call.flag = "True"
    /\ call.q = [re |-> Lit(1), im |-> Lit(1)]
    /\ call.m = <<<<Lit(1), Lit(1)>>, <<Lit(-1), Lit(0)>>>>
    /\ C6_Denominators(call.q, call.m)
    /\ ret.exc = "none"
    /\ ret.val = [re |-> Num(-3, 5), im |-> Num(-1, 5)]

\* get_gaussian_beams_W0 was called with what get_gaussian_beams_Z0
\* returned, with the same wavelength and the same n, all positive.
RoundTripCase ==
    /\ call.fn = "get_gaussian_beams_W0"
    /\ fed.fn = "get_gaussian_beams_Z0"
    /\ call.wavelength = fed.wavelength
    /\ call.n = fed.n
    /\ Positive(fed.wavelength) /\ Positive(fed.w0) /\ Positive(fed.n)

\* C7: for wavelength > 0, w0 > 0 and n > 0,
\* get_gaussian_beams_W0(wavelength, get_gaussian_beams_Z0(wavelength, w0, n), n)
\* is w0, in real arithmetic.
C7_RoundTrip ==
    RoundTripCase =>
        /\ ret.exc = "none"
        /\ ret.val = fed.w0
        /\ Mul(ret.val, ret.val) = Mul(fed.w0, fed.w0)

\* The round trip has been made for w0 = 2, wavelength = 1 and n = 2.
C7_Witness ==
    /\ RoundTripCase
    /\ fed.w0 = Lit(2) /\ fed.wavelength = Lit(1) /\ fed.n = Lit(2)
    /\ call.z0 = Num(2840, 113)
    /\ ret = Returned(Lit(2))

RayleighCase ==
    /\ call.fn = "get_gaussian_beams_Z0"
    /\ ret # Pending
    /\ Positive(call.wavelength) /\ Positive(call.w0) /\ Positive(call.n)

\* C8 as stated: for wavelength > 0, w0 > 0 and n > 0,
\* get_gaussian_beams_Z0 returns w0^2 / (pi * wavelength / n), pi in the
\* denominator, the same as n * w0^2 * pi / wavelength.
C8_PiInDenominator ==
    RayleighCase =>
        /\ ret.exc = "none"
        /\ ret.val = Div(Mul(call.w0, call.w0),
                         Div(Mul(pi, call.wavelength), call.n))
        /\ ret.val = Div(Mul(Mul(call.n, Mul(call.w0, call.w0)), pi),
                         call.wavelength)

\* C8 as amended: for wavelength > 0, w0 > 0 and n > 0,
\* get_gaussian_beams_Z0 returns (w0^2 * pi) / (wavelength / n), pi in the
\* numerator, the same as n * w0^2 * pi / wavelength.
C8_PiInNumerator ==
    RayleighCase =>
        /\ ret.exc = "none"
        /\ Mul(ret.val, Div(call.wavelength, call.n)) =
               Mul(Mul(call.w0, call.w0), pi)
        /\ ret.val = Div(Mul(Mul(call.n, Mul(call.w0, call.w0)), pi),
                         call.wavelength)

\* The Rayleigh range of w0 = 1, wavelength = 2, n = 1 has been returned:
\* pi/2, and not 1/(2 pi).
C8_Witness ==
    /\ RayleighCase
    /\ call.w0 = Lit(1) /\ call.wavelength = Lit(2) /\ call.n = Lit(1)
    /\ ret = Returned(Num(355, 226))
    /\ ret.val # Num(113, 710)

\* The call divides by zero: one of the divisors it evaluates is zero.
DividesByZero ==
    CASE call.fn = "lens_thin" -> call.f = Lit(0)
      [] call.fn = "lens_thick" ->
             Lit(0) \in {call.n1, call.n2, call.r1, call.r2}
      [] call.fn = "interface" -> call.n2 = Lit(0)
      [] call.fn = "curved_interface" -> call.Re = Lit(0)
      [] call.fn = "get_new_q" ->
             IF call.flag = "True"
             THEN \/ call.q = CZero
                  \/ CAdd(QA, CDiv(QB, call.q)) = CZero
             ELSE CAdd(CMul(QC, call.q), QD) = CZero
      [] call.fn = "get_gaussian_beams_Z0" ->
             call.n = Lit(0) \/ call.wavelength = Lit(0)
      [] call.fn = "get_gaussian_beams_W0" -> call.n = Lit(0)
      [] OTHER -> FALSE

C10_SameIndexIdentity ==
    (call.fn = "interface" /\ ret # Pending /\ call.n1 = call.n2) =>
        ret = Returned(Identity)

\* C10 as amended: interface(n, n) returns the identity for any nonzero n,
\* negative n included; interface(0, 0) raises ZeroDivisionError.
C10_SameNonzeroIndexIdentity ==
    (call.fn = "interface" /\ ret # Pending /\ call.n1 = call.n2) =>
        IF Nonzero(call.n1)
        THEN ret = Returned(Identity)
        ELSE ret = Raised("ZeroDivisionError")

\* interface(-2, -2) has returned the identity.
C10_Witness ==
    /\ call.fn = "interface"
    /\ call.n1 = Lit(-2) /\ call.n2 = Lit(-2)
    /\ ret = Returned(Identity)

=============================================================================
